---- MODULE Spec2Model ----
(***************************************************************************)
(* Stable-memory cursor engine of ic-cdk (api/stable): StableIO and its    *)
(* StableWriter / StableReader facades over a page-granular host region.   *)
(*                                                                         *)
(* Scale.  The address type u32 is modelled as an AddrBits-bit unsigned    *)
(* integer and the page size as 4 bytes, so that every boundary of the     *)
(* real arithmetic (page rounding, the end of the region, the end of the   *)
(* address space) is within reach of exhaustive search.  Arithmetic is     *)
(* done as the code does it: each +, * on the address type is reduced      *)
(* modulo 2^AddrBits, or panics when the build checks overflow.            *)
(***************************************************************************)
EXTENDS Integers, Sequences, FiniteSets, TLC

\* stable_io.rs:5  (64 * 1024 in the source; scaled to 4 bytes per page)
WASM_PAGE_SIZE_IN_BYTES == 4

\* width in bits of the address type of impl_stable_io!(u32), scaled
AddrBits == 4

\* number of cursor operations explored after construction
MaxOps == 2

AddrMod == 2 ^ AddrBits

\* The 32-bit host interface serves regions up to the whole 32-bit address
\* space: the ceiling of the region, in pages.
HostMaxPages == AddrMod \div WASM_PAGE_SIZE_IN_BYTES

HostMaxBytes == HostMaxPages * WASM_PAGE_SIZE_IN_BYTES

Addr == 0 .. (AddrMod - 1)

Cursors == {"w", "r"}

\* buffer lengths offered to write and read: empty, one byte, more than a page
Lens == {0, 1, WASM_PAGE_SIZE_IN_BYTES + 1}

\* the caller's buffer of n bytes; bytes are nonzero so that they differ from a fresh page
Buf(n) == [i \in 1 .. n |-> ((i - 1) % 3) + 1]

VARIABLES
    host_size,        \* pages of the host region
    host_mem,         \* contents of the host region, by byte address
    io,               \* io[c]: the StableIO of cursor c: offset, capacity
    ghost,            \* ghost[c]: offset at construction, bytes written since, only writes so far
    log,              \* records of the latest operations, the latest first
    steps,            \* operations done
    overflow_checks,  \* the build: TRUE panics on integer overflow, FALSE wraps
    bw,               \* the BufferedStableWriter around cursor w, when there is one
    br,               \* the BufferedStableReader around cursor r, when there is one
    io64              \* a StableIO of impl_stable_io!(u64): offset, capacity

vars == <<host_size, host_mem, io, ghost, log, steps, overflow_checks, bw, br, io64>>

\* `x as u32` and wrapping arithmetic on the address type
Wrap(x) == x % AddrMod

\* u32::saturating_sub
saturating_sub(a, b) == IF a > b THEN a - b ELSE 0

(***************************************************************************)
(* The host region (PageMemory capability).  avail: the pages the host can *)
(* still allocate when asked.                                              *)
(***************************************************************************)

\* stable_size: current size in pages
stable_size(hs) == hs

\* stable_grow: refuses, or adds new_pages zeroed pages and returns the previous size
stable_grow(hs, new_pages, avail) ==
    IF new_pages <= avail /\ hs + new_pages <= HostMaxPages
    THEN [ok |-> TRUE, old |-> hs, size |-> hs + new_pages]
    ELSE [ok |-> FALSE, old |-> hs, size |-> hs]

\* precondition of the raw write and the raw read: the host traps without it
InRegion(hs, offset, len) == offset + len <= hs * WASM_PAGE_SIZE_IN_BYTES

\* stable_write: copies buf to [offset, offset + len)
stable_write(hm, offset, buf) ==
    [a \in DOMAIN hm |->
        IF a >= offset /\ a < offset + Len(buf) THEN buf[a - offset + 1] ELSE hm[a]]

\* stable_read: the bytes at [offset, offset + len)
stable_read(hm, offset, len) == [i \in 1 .. len |-> hm[offset + i - 1]]

(***************************************************************************)
(* StableIO                                                                *)
(***************************************************************************)

\* StableIO::with_memory
with_memory(hs, offset) == [offset |-> offset, capacity |-> stable_size(hs)]

\* StableIO::grow adding to the cached capacity instead of the host's report
StableIO_grow_FromCache(cur, hs, new_pages, avail) ==
    LET g == stable_grow(hs, new_pages, avail)
    IN  IF ~g.ok
        THEN [res |-> "OutOfMemory", cur |-> cur, hs |-> hs]
        ELSE [res |-> "Ok",
              cur |-> [cur EXCEPT !.capacity = Wrap(cur.capacity + new_pages)],
              hs  |-> g.size]

\* StableIO::grow updating the cached capacity before it looks at the host's answer
StableIO_grow_Eager(cur, hs, new_pages, avail) ==
    LET g == stable_grow(hs, new_pages, avail)
    IN  [res |-> IF g.ok THEN "Ok" ELSE "OutOfMemory",
         cur |-> [cur EXCEPT !.capacity = Wrap(g.old + new_pages)],
         hs  |-> g.size]

\* StableIO::grow taking the pages added for the new capacity
StableIO_grow_Added(cur, hs, new_pages, avail) ==
    LET g == stable_grow(hs, new_pages, avail)
    IN  IF ~g.ok
        THEN [res |-> "OutOfMemory", cur |-> cur, hs |-> hs]
        ELSE [res |-> "Ok", cur |-> [cur EXCEPT !.capacity = new_pages], hs |-> g.size]

\* StableIO::grow
StableIO_grow(cur, hs, new_pages, avail) ==
    LET g == stable_grow(hs, new_pages, avail)
    IN  IF ~g.ok
        THEN [res |-> "OutOfMemory", cur |-> cur, hs |-> hs]
        ELSE [res |-> "Ok",
              cur |-> [cur EXCEPT !.capacity = Wrap(g.old + new_pages)],
              hs  |-> g.size]

\* StableIO::write leaving the offset where it was after the raw write
StableIO_write_NoAdvance(cur, buf, hs, hm, avail, chk) ==
    LET len  == Wrap(Len(buf))
        s1   == cur.offset + len
        s2   == Wrap(s1) + WASM_PAGE_SIZE_IN_BYTES
        s3   == Wrap(s2) - 1
        additional_pages_required ==
            saturating_sub(Wrap(s3) \div WASM_PAGE_SIZE_IN_BYTES, cur.capacity)
        g    == IF additional_pages_required > 0
                THEN StableIO_grow(cur, hs, additional_pages_required, avail)
                ELSE [res |-> "Ok", cur |-> cur, hs |-> hs]
        out(res, raw) ==
            [res |-> res, ret |-> IF res = "Ok" THEN Len(buf) ELSE 0,
             cur |-> g.cur, hs |-> g.hs,
             hm  |-> IF res = "Ok" THEN stable_write(hm, cur.offset, buf) ELSE hm,
             grow_req |-> additional_pages_required,
             grow_ok |-> (res # "OutOfMemory" /\ additional_pages_required > 0),
             raw |-> raw]
    IN  IF chk /\ (s1 >= AddrMod \/ s2 >= AddrMod \/ s3 < 0)
        THEN [res |-> "panic", ret |-> 0, cur |-> cur, hs |-> hs, hm |-> hm,
              grow_req |-> 0, grow_ok |-> FALSE, raw |-> FALSE]
        ELSE IF g.res = "OutOfMemory" THEN out("OutOfMemory", FALSE)
        ELSE IF ~InRegion(g.hs, cur.offset, Len(buf)) THEN out("panic", TRUE)
        ELSE out("Ok", TRUE)

\* StableIO::write.  chk: the build checks integer overflow.
\* grow_req: pages asked of the host (0: no request); grow_ok: the host granted
\* them; raw: a raw write was issued.
StableIO_write(cur, buf, hs, hm, avail, chk) ==
    LET len  == Wrap(Len(buf))
        s1   == cur.offset + len
        required_capacity_bytes == Wrap(s1)
        s2   == required_capacity_bytes + WASM_PAGE_SIZE_IN_BYTES
        s3   == Wrap(s2) - 1
        required_capacity_pages == Wrap(s3) \div WASM_PAGE_SIZE_IN_BYTES
        current_pages == cur.capacity
        additional_pages_required == saturating_sub(required_capacity_pages, current_pages)
        g    == IF additional_pages_required > 0
                THEN StableIO_grow(cur, hs, additional_pages_required, avail)
                ELSE [res |-> "Ok", cur |-> cur, hs |-> hs]
    IN  IF chk /\ (s1 >= AddrMod \/ s2 >= AddrMod \/ s3 < 0)
        THEN [res |-> "panic", ret |-> 0, cur |-> cur, hs |-> hs, hm |-> hm,
              grow_req |-> 0, grow_ok |-> FALSE, raw |-> FALSE]
        ELSE IF g.res = "OutOfMemory"
        THEN [res |-> "OutOfMemory", ret |-> 0, cur |-> g.cur, hs |-> g.hs, hm |-> hm,
              grow_req |-> additional_pages_required, grow_ok |-> FALSE, raw |-> FALSE]
        ELSE IF ~InRegion(g.hs, cur.offset, Len(buf))
        THEN [res |-> "panic", ret |-> 0, cur |-> g.cur, hs |-> g.hs, hm |-> hm,
              grow_req |-> additional_pages_required,
              grow_ok |-> (additional_pages_required > 0), raw |-> TRUE]
        ELSE [res |-> "Ok", ret |-> Len(buf),
              cur |-> [g.cur EXCEPT !.offset = Wrap(cur.offset + len)],
              hs  |-> g.hs,
              hm  |-> stable_write(hm, cur.offset, buf),
              grow_req |-> additional_pages_required,
              grow_ok |-> (additional_pages_required > 0), raw |-> TRUE]

\* StableIO::read refusing every buffer that reaches beyond the cached capacity,
\* instead of shortening it
StableIO_read_NoShort(cur, n, hs, hm, chk) ==
    LET m1 == cur.capacity * WASM_PAGE_SIZE_IN_BYTES
        s1 == Wrap(n) + cur.offset
    IN  IF chk /\ (m1 >= AddrMod \/ s1 >= AddrMod)
        THEN [res |-> "panic", ret |-> 0, data |-> <<>>, cur |-> cur, raw |-> FALSE]
        ELSE IF Wrap(s1) > Wrap(m1)
        THEN [res |-> "OutOfBounds", ret |-> 0, data |-> <<>>, cur |-> cur, raw |-> FALSE]
        ELSE IF ~InRegion(hs, cur.offset, n)
        THEN [res |-> "panic", ret |-> 0, data |-> <<>>, cur |-> cur, raw |-> TRUE]
        ELSE [res |-> "Ok", ret |-> n, data |-> stable_read(hm, cur.offset, n),
              cur |-> [cur EXCEPT !.offset = Wrap(cur.offset + n)], raw |-> TRUE]

\* StableIO::read into a buffer of n bytes.  data: the bytes put in the buffer;
\* raw: a raw read was issued.
StableIO_read(cur, n, hs, hm, chk) ==
    LET m1 == cur.capacity * WASM_PAGE_SIZE_IN_BYTES
        capacity_bytes == Wrap(m1)
        s1 == Wrap(n) + cur.offset
        read_len == IF Wrap(s1) > capacity_bytes
                    THEN capacity_bytes - cur.offset
                    ELSE n
    IN  IF chk /\ (m1 >= AddrMod \/ s1 >= AddrMod)
        THEN [res |-> "panic", ret |-> 0, data |-> <<>>, cur |-> cur, raw |-> FALSE]
        ELSE IF Wrap(s1) > capacity_bytes /\ ~(cur.offset < capacity_bytes)
        THEN [res |-> "OutOfBounds", ret |-> 0, data |-> <<>>, cur |-> cur, raw |-> FALSE]
        ELSE IF ~InRegion(hs, cur.offset, read_len)
        THEN [res |-> "panic", ret |-> 0, data |-> <<>>, cur |-> cur, raw |-> TRUE]
        ELSE [res |-> "Ok", ret |-> read_len,
              data |-> stable_read(hm, cur.offset, read_len),
              cur |-> [cur EXCEPT !.offset = Wrap(cur.offset + read_len)],
              raw |-> TRUE]

\* io::Read::read passing the cursor's error on to the caller
StableIO_io_read_Passes(cur, n, hs, hm, chk) ==
    StableIO_read(cur, n, hs, hm, chk)

\* impl io::Read for StableIO (and for StableReader, which forwards to it):
\* Self::read(self, buf).or(Ok(0))
StableIO_io_read(cur, n, hs, hm, chk) ==
    IF StableIO_read(cur, n, hs, hm, chk).res = "OutOfBounds"
    THEN [res |-> "Ok", ret |-> 0, data |-> <<>>, cur |-> cur, raw |-> FALSE]
    ELSE StableIO_read(cur, n, hs, hm, chk)

\* range of u64 and i64, the types of io::SeekFrom's values: twice the width of
\* the 32-bit address type
WideMod == AddrMod * AddrMod

\* the least i64
WideMin == 0 - (WideMod \div 2)

\* `as i64` of an unsigned value of at most 64 bits
as_i64(v) == IF v >= WideMod \div 2 THEN v - WideMod ELSE v

\* a + b in i64, wrapped
wrapping_add_i64(a, b) == ((a + b - WideMin) % WideMod) + WideMin

\* a + b overflows i64
overflows_i64(a, b) == a + b < WideMin \/ a + b >= WideMin + WideMod

\* StableIO::seek of the cursor with address range 0 .. A - 1 (A = AddrMod for
\* impl_stable_io!(u32), WideMod for impl_stable_io!(u64)); from: the io::SeekFrom,
\* [origin, n].  base: what n is added to, in the address type.
StableIO_seek(cur, from, A, chk) ==
    LET m1   == cur.capacity * WASM_PAGE_SIZE_IN_BYTES
        base == IF from.origin = "End" THEN as_i64(m1 % A) ELSE as_i64(cur.offset)
        new  == IF from.origin = "Start"
                THEN from.n % A
                ELSE wrapping_add_i64(base, from.n) % A
    IN  IF chk /\ from.origin = "End" /\ m1 >= A
        THEN [res |-> "panic", ret |-> 0, cur |-> cur]
        ELSE IF chk /\ from.origin # "Start" /\ overflows_i64(base, from.n)
        THEN [res |-> "panic", ret |-> 0, cur |-> cur]
        ELSE [res |-> "Ok", ret |-> new, cur |-> [cur EXCEPT !.offset = new]]

(***************************************************************************)
(* Operations of a cursor, as steps of the state machine.  Each step puts  *)
(* a record of the call at the head of log: the cursor and the region      *)
(* before the call, the arguments, what was asked of the host, the result. *)
(***************************************************************************)

NoOp == [op |-> "none", c |-> "w", pre |-> [offset |-> 0, capacity |-> 0],
         pre_size |-> 0, pre_mem |-> <<>>, n |-> 0, buf |-> <<>>,
         grow_req |-> 0, grow_ok |-> FALSE, raw |-> FALSE,
         res |-> "Ok", ret |-> 0, data |-> <<>>, from |-> "none"]

\* the latest operation
last == log[1]

\* the log keeps three records, and the region's contents only in the latest
Logged(rec) ==
    log' = <<rec>> \o [i \in 1 .. (IF Len(log) < 2 THEN Len(log) ELSE 2) |->
                          [log[i] EXCEPT !.pre_mem = <<>>]]

\* a panic (an overflow caught by the build, a trap of the host) ends the run
Alive == last.res # "panic"

ZeroMem == [a \in 0 .. (HostMaxBytes - 1) |-> 0]

\* StableWriter::write on cursor c with the buffer Buf(n)
Write(c, n, avail) ==
    LET o == StableIO_write(io[c], Buf(n), host_size, host_mem, avail, overflow_checks)
    IN  /\ Alive
        /\ io' = [io EXCEPT ![c] = o.cur]
        /\ host_size' = o.hs
        /\ host_mem' = o.hm
        /\ ghost' = [ghost EXCEPT ![c] =
                        IF o.res = "Ok"
                        THEN [@ EXCEPT !.total = @ + n]
                        ELSE [@ EXCEPT !.clean = FALSE]]
        /\ Logged([NoOp EXCEPT !.op = "write", !.c = c, !.pre = io[c],
                       !.pre_size = host_size, !.pre_mem = host_mem,
                       !.n = n, !.buf = Buf(n), !.grow_req = o.grow_req,
                       !.grow_ok = o.grow_ok, !.raw = o.raw,
                       !.res = o.res, !.ret = o.ret])
        /\ steps' = steps + 1
        /\ UNCHANGED <<overflow_checks, bw, br, io64>>

\* StableWriter::grow on cursor c
Grow(c, k, avail) ==
    LET o == StableIO_grow(io[c], host_size, k, avail)
    IN  /\ Alive
        /\ io' = [io EXCEPT ![c] = o.cur]
        /\ host_size' = o.hs
        /\ ghost' = [ghost EXCEPT ![c].clean = FALSE]
        /\ Logged([NoOp EXCEPT !.op = "grow", !.c = c, !.pre = io[c],
                       !.pre_size = host_size, !.pre_mem = host_mem,
                       !.n = k, !.grow_req = k, !.grow_ok = (o.res = "Ok"),
                       !.res = o.res])
        /\ steps' = steps + 1
        /\ UNCHANGED <<host_mem, overflow_checks, bw, br, io64>>

\* StableReader::read on cursor c into a buffer of n bytes
Read(c, n) ==
    LET o == StableIO_read(io[c], n, host_size, host_mem, overflow_checks)
    IN  /\ Alive
        /\ io' = [io EXCEPT ![c] = o.cur]
        /\ ghost' = [ghost EXCEPT ![c].clean = FALSE]
        /\ Logged([NoOp EXCEPT !.op = "read", !.c = c, !.pre = io[c],
                       !.pre_size = host_size, !.pre_mem = host_mem,
                       !.n = n, !.raw = o.raw, !.res = o.res, !.ret = o.ret,
                       !.data = o.data])
        /\ steps' = steps + 1
        /\ UNCHANGED <<host_size, host_mem, overflow_checks, bw, br, io64>>

\* io::Read::read of StableReader on cursor c into a buffer of n bytes
IoRead(c, n) ==
    /\ Alive
    /\ \E o \in {StableIO_io_read(io[c], n, host_size, host_mem, overflow_checks)} :
        /\ io' = [io EXCEPT ![c] = o.cur]
        /\ Logged([NoOp EXCEPT !.op = "ioread", !.c = c, !.pre = io[c],
                       !.pre_size = host_size, !.pre_mem = host_mem,
                       !.n = n, !.raw = o.raw, !.res = o.res, !.ret = o.ret,
                       !.data = o.data])
    /\ ghost' = [ghost EXCEPT ![c].clean = FALSE]
    /\ steps' = steps + 1
    /\ UNCHANGED <<host_size, host_mem, overflow_checks, bw, br, io64>>

\* io::Seek::seek of StableWriter / StableReader on cursor c
Seek(c, from) ==
    /\ Alive
    /\ \E o \in {StableIO_seek(io[c], from, AddrMod, overflow_checks)} :
        /\ io' = [io EXCEPT ![c] = o.cur]
        /\ Logged([NoOp EXCEPT !.op = "seek", !.c = c, !.pre = io[c],
                       !.pre_size = host_size, !.pre_mem = host_mem,
                       !.n = from.n, !.from = from.origin, !.res = o.res, !.ret = o.ret])
    /\ ghost' = [ghost EXCEPT ![c].clean = FALSE]
    /\ steps' = steps + 1
    /\ UNCHANGED <<host_size, host_mem, overflow_checks, bw, br, io64>>

\* io::Seek::seek of the StableIO of impl_stable_io!(u64)
Seek64(from) ==
    /\ Alive
    /\ \E o \in {StableIO_seek(io64, from, WideMod, overflow_checks)} :
        /\ io64' = o.cur
        /\ Logged([NoOp EXCEPT !.op = "seek64", !.pre = io64,
                       !.pre_size = host_size, !.pre_mem = host_mem,
                       !.n = from.n, !.from = from.origin, !.res = o.res, !.ret = o.ret])
    /\ steps' = steps + 1
    /\ UNCHANGED <<host_size, host_mem, io, ghost, overflow_checks, bw, br>>

\* StableWriter::with_memory / StableReader::with_memory: cursor c is built anew
New(c, offset) ==
    /\ Alive
    /\ io' = [io EXCEPT ![c] = with_memory(host_size, offset)]
    /\ ghost' = [ghost EXCEPT ![c] = [origin |-> offset, total |-> 0, clean |-> TRUE]]
    /\ Logged([NoOp EXCEPT !.op = "new", !.c = c, !.pre = io[c],
                   !.pre_size = host_size, !.pre_mem = host_mem, !.n = offset])
    /\ steps' = steps + 1
    /\ UNCHANGED <<host_size, host_mem, overflow_checks, bw, br, io64>>

\* the host grants every request within its ceiling, or has nothing left
Avail == {0, HostMaxPages}

(***************************************************************************)
(* Spec: a writer built at any offset on a region of any size writes and   *)
(* grows, while another cursor grows the same region.                      *)
(***************************************************************************)

\* both cursors built on a fresh region of any size, w at ow and r at or
InitAt(ow, or) ==
    /\ host_size \in 0 .. HostMaxPages
    /\ host_mem = ZeroMem
    /\ overflow_checks \in BOOLEAN
    /\ io = [c \in Cursors |-> with_memory(host_size, IF c = "w" THEN ow ELSE or)]
    /\ ghost = [c \in Cursors |->
                  [origin |-> IF c = "w" THEN ow ELSE or, total |-> 0, clean |-> TRUE]]
    /\ log = <<NoOp>>
    /\ steps = 0

\* no 64-bit cursor in use
NoIo64 == [offset |-> 0, capacity |-> 0]

\* no buffered reader
NoBr == [cap |-> 0, buf |-> <<>>, open |-> FALSE, delivered |-> 0]

\* no buffered writer
NoBw == [cap |-> 0, buf |-> <<>>, len |-> 0, fed |-> 0, open |-> FALSE,
         failed |-> FALSE, limit |-> 0, size0 |-> 0]

Init == bw = NoBw /\ br = NoBr /\ io64 = NoIo64 /\ \E ow \in Addr : InitAt(ow, 0)

WriterWrites == \E n \in Lens, avail \in Avail : steps < MaxOps /\ Write("w", n, avail)

WriterGrows ==
    \E k \in 1 .. 2, avail \in Avail :
        steps < MaxOps /\ (avail = 0 => k = 1) /\ Grow("w", k, avail)

OtherGrows == steps < MaxOps /\ Grow("r", 1, HostMaxPages)

OtherGrows1 == steps < MaxOps /\ Grow("w", 1, HostMaxPages)

Next == WriterWrites \/ WriterGrows \/ OtherGrows

Spec == Init /\ [][Next]_vars

TypeOK ==
    /\ host_size \in 0 .. HostMaxPages
    /\ \A c \in Cursors : io[c].offset \in Addr /\ io[c].capacity \in Addr
    /\ steps \in Nat

(***************************************************************************)
(* Claims on Spec                                                          *)
(***************************************************************************)

\* ceil(b / PAGE_SIZE), over the integers
CeilPages(b) == (b + WASM_PAGE_SIZE_IN_BYTES - 1) \div WASM_PAGE_SIZE_IN_BYTES

\* the write's address arithmetic stays within the address type
NoWrap(rec) == rec.pre.offset + rec.n + WASM_PAGE_SIZE_IN_BYTES < AddrMod

\* the call of rec needed no growth: its byte range fits the cached capacity
Fits(rec) == rec.pre.offset + rec.n <= rec.pre.capacity * WASM_PAGE_SIZE_IN_BYTES

\* C1: after each write of a run of successful writes through a writer built at
\* offset O, offset = O + bytes written so far, and capacity * PAGE_SIZE >= offset.
C1_OffsetIsSumOfWrites ==
    \A c \in Cursors :
        (ghost[c].clean /\ last.op = "write" /\ last.c = c /\ last.res = "Ok")
        => /\ io[c].offset = ghost[c].origin + ghost[c].total
           /\ io[c].capacity * WASM_PAGE_SIZE_IN_BYTES >= io[c].offset

\* C1 where origin + bytes written stays below the end of the address space
C1_OffsetIsSumOfWrites_NoWrap ==
    \A c \in Cursors :
        (ghost[c].clean /\ last.op = "write" /\ last.c = c /\ last.res = "Ok"
            /\ ghost[c].origin + ghost[c].total + WASM_PAGE_SIZE_IN_BYTES < AddrMod)
        => /\ io[c].offset = ghost[c].origin + ghost[c].total
           /\ io[c].capacity * WASM_PAGE_SIZE_IN_BYTES >= io[c].offset

\* C2: a write whose byte range exceeds the cached capacity asks the host for
\* exactly ceil((offset + len) / PAGE_SIZE) - capacity pages; a write whose range
\* fits asks for none.
C2_GrowsExactShortfall ==
    last.op = "write" =>
        IF Fits(last)
        THEN last.grow_req = 0
        ELSE last.grow_req = CeilPages(last.pre.offset + last.n) - last.pre.capacity

\* C2 for the writes whose address arithmetic does not wrap
C2_GrowsExactShortfall_NoWrap ==
    (last.op = "write" /\ NoWrap(last)) =>
        IF Fits(last)
        THEN last.grow_req = 0
        ELSE last.grow_req = CeilPages(last.pre.offset + last.n) - last.pre.capacity

\* C4: when a write asks for growth and the host refuses, the write returns
\* OutOfMemory and the cursor, the region's size and contents are as before, with
\* no raw write issued.
C4_RefusedGrowAppliesNothing ==
    (last.op = "write" /\ last.grow_req > 0 /\ ~last.grow_ok) =>
        /\ last.res = "OutOfMemory"
        /\ io[last.c] = last.pre
        /\ host_size = last.pre_size
        /\ host_mem = last.pre_mem
        /\ ~last.raw

C4_Witness ==
    /\ last.op = "write" /\ last.grow_req > 0 /\ ~last.grow_ok
    /\ last.res = "OutOfMemory" /\ last.n > 0

\* C5: write fails only if growth fails: it returns Ok with the full buffer
\* length whenever no growth is needed or the needed grow succeeds, and whenever it
\* does not return Ok a grow was asked for and refused.
C5_WriteFailsOnlyOnGrow ==
    last.op = "write" =>
        /\ (Fits(last) \/ last.grow_ok) => (last.res = "Ok" /\ last.ret = last.n)
        /\ last.res # "Ok" =>
              (last.res = "OutOfMemory" /\ last.grow_req > 0 /\ ~last.grow_ok)

\* C5 for the writes whose address arithmetic does not wrap
C5_WriteFailsOnlyOnGrow_NoWrap ==
    (last.op = "write" /\ NoWrap(last)) =>
        /\ (Fits(last) \/ last.grow_ok) => (last.res = "Ok" /\ last.ret = last.n)
        /\ last.res # "Ok" =>
              (last.res = "OutOfMemory" /\ last.grow_req > 0 /\ ~last.grow_ok)

\* C6: a successful grow of k pages, asked for directly or by a write, on a
\* region of c pages leaves the region at c + k pages and the cached capacity at
\* c + k, c being the host's size at the call and not the cached one.
C6_GrowTracksHost ==
    (last.op \in {"grow", "write"} /\ last.grow_ok) =>
        /\ host_size = last.pre_size + last.grow_req
        /\ io[last.c].capacity = last.pre_size + last.grow_req
        /\ io[last.c].capacity = host_size

C6_Witness ==
    /\ last.op = "grow" /\ last.grow_ok /\ last.res = "Ok"
    /\ last.pre.capacity < last.pre_size
    /\ io[last.c].capacity = last.pre_size + last.n

(***************************************************************************)
(* SpecRead: a reader built at any offset on a region of any size reads,   *)
(* while a writer built at offset 0 writes to and grows the same region.   *)
(***************************************************************************)

InitRead == bw = NoBw /\ br = NoBr /\ io64 = NoIo64 /\ \E or \in Addr : InitAt(0, or)

ReaderReads == \E n \in Lens : steps < MaxOps /\ Read("r", n)

OtherWrites == \E n \in Lens : steps < MaxOps /\ Write("w", n, HostMaxPages)

NextRead == ReaderReads \/ OtherWrites \/ OtherGrows1

SpecRead == InitRead /\ [][NextRead]_vars

\* cached capacity in bytes, over the integers
CapBytes(rec) == rec.pre.capacity * WASM_PAGE_SIZE_IN_BYTES

\* the read's address arithmetic stays within the address type
NoWrapRead(rec) == rec.pre.offset + rec.n < AddrMod /\ CapBytes(rec) < AddrMod

\* C3: a read of n > 0 bytes starting exactly at capacity * PAGE_SIZE fails with
\* OutOfBounds; a read starting below it and reaching beyond it succeeds with
\* capacity * PAGE_SIZE - offset bytes and leaves the offset at capacity * PAGE_SIZE.
C3_TruncateOrOutOfBounds ==
    (last.op = "read" /\ last.n > 0) =>
        /\ last.pre.offset = CapBytes(last) => last.res = "OutOfBounds"
        /\ (last.pre.offset < CapBytes(last) /\ last.pre.offset + last.n > CapBytes(last))
              => /\ last.res = "Ok"
                 /\ last.ret = CapBytes(last) - last.pre.offset
                 /\ io[last.c].offset = last.pre.offset + last.ret

\* C3 for the reads whose address arithmetic does not wrap
C3_TruncateOrOutOfBounds_NoWrap ==
    (last.op = "read" /\ last.n > 0 /\ NoWrapRead(last)) =>
        /\ last.pre.offset = CapBytes(last) => last.res = "OutOfBounds"
        /\ (last.pre.offset < CapBytes(last) /\ last.pre.offset + last.n > CapBytes(last))
              => /\ last.res = "Ok"
                 /\ last.ret = CapBytes(last) - last.pre.offset
                 /\ io[last.c].offset = last.pre.offset + last.ret

\* C8: read uses the capacity the cursor cached and does not ask the host again:
\* a read of n > 0 bytes starting at or beyond cached capacity * PAGE_SIZE fails with
\* OutOfBounds and leaves the cached capacity as it was, also when the region has
\* been grown by another cursor and holds the bytes asked for.
C8_StaleCapacityOutOfBounds ==
    (last.op = "read" /\ last.n > 0 /\ last.pre.offset >= CapBytes(last)
        /\ InRegion(last.pre_size, last.pre.offset, last.n))
    => (last.res = "OutOfBounds" /\ io[last.c] = last.pre)

\* C8 for the reads whose address arithmetic does not wrap
C8_StaleCapacityOutOfBounds_NoWrap ==
    (last.op = "read" /\ last.n > 0 /\ last.pre.offset >= CapBytes(last)
        /\ InRegion(last.pre_size, last.pre.offset, last.n) /\ NoWrapRead(last))
    => (last.res = "OutOfBounds" /\ io[last.c] = last.pre)

\* C10: a read of n bytes with offset + n <= capacity * PAGE_SIZE returns n, puts
\* the region's bytes at [offset, offset + n) in the buffer and advances offset by n.
C10_ReadWithinCapacity ==
    (last.op = "read" /\ last.pre.offset + last.n <= CapBytes(last)) =>
        /\ last.res = "Ok"
        /\ last.ret = last.n
        /\ last.data = stable_read(last.pre_mem, last.pre.offset, last.n)
        /\ io[last.c].offset = last.pre.offset + last.n

\* C10 for the reads whose address arithmetic does not wrap
C10_ReadWithinCapacity_NoWrap ==
    (last.op = "read" /\ last.pre.offset + last.n <= CapBytes(last) /\ NoWrapRead(last)) =>
        /\ last.res = "Ok"
        /\ last.ret = last.n
        /\ last.data = stable_read(last.pre_mem, last.pre.offset, last.n)
        /\ io[last.c].offset = last.pre.offset + last.n

C20_EmptyRead ==
    (last.op = "read" /\ last.n = 0) =>
        IF last.pre.offset <= CapBytes(last)
        THEN last.res = "Ok" /\ last.ret = 0 /\ io[last.c] = last.pre
        ELSE last.res = "OutOfBounds"

\* C20 for the reads whose address arithmetic does not wrap
C20_EmptyRead_NoWrap ==
    (last.op = "read" /\ last.n = 0 /\ NoWrapRead(last)) =>
        IF last.pre.offset <= CapBytes(last)
        THEN last.res = "Ok" /\ last.ret = 0 /\ io[last.c] = last.pre
        ELSE last.res = "OutOfBounds"

(***************************************************************************)
(* SpecStream: as SpecRead, the reader reading through io::Read.           *)
(***************************************************************************)

ReaderIoReads == \E n \in Lens : steps < MaxOps /\ IoRead("r", n)

NextStream == ReaderIoReads \/ OtherWrites \/ OtherGrows1

SpecStream == InitRead /\ [][NextStream]_vars

\* what the cursor's own read answers to the latest call
RawRead == StableIO_read(last.pre, last.n, last.pre_size, last.pre_mem, overflow_checks)

\* C12: the io::Read read of a StableReader never returns an error: where the
\* cursor's read answers OutOfBounds it returns Ok(0) and leaves the offset as it
\* was; where the cursor's read answers Ok(k), a short read included, it returns
\* Ok(k) with the same bytes and the same new offset.
C12_StreamReadNeverErrs ==
    last.op = "ioread" =>
        /\ last.res \notin {"OutOfBounds", "OutOfMemory"}
        /\ RawRead.res = "OutOfBounds" =>
              (last.res = "Ok" /\ last.ret = 0 /\ io[last.c] = last.pre)
        /\ RawRead.res = "Ok" =>
              /\ last.res = "Ok" /\ last.ret = RawRead.ret
              /\ last.data = RawRead.data /\ io[last.c] = RawRead.cur

C12_Witness ==
    /\ last.op = "ioread" /\ last.n > 0
    /\ RawRead.res = "OutOfBounds"
    /\ last.res = "Ok" /\ last.ret = 0
    /\ log[2].op = "ioread" /\ log[2].ret > 0 /\ log[2].ret < log[2].n

(***************************************************************************)
(* SpecCursors: a cursor built at offset 0 on a region of any size is      *)
(* written, grown, read, moved by seek and built anew, in any order, while *)
(* another cursor on the same region grows it and writes to it.            *)
(***************************************************************************)

InitCursors == bw = NoBw /\ br = NoBr /\ io64 = NoIo64 /\ InitAt(0, 0)

\* seeks to the start, the last page and the end of the address space and
\* beyond it, and around the cached end and the current offset
SeekTargets ==
    {[origin |-> "Start", n |-> n] :
        n \in {0, 1, AddrMod - WASM_PAGE_SIZE_IN_BYTES, AddrMod - 1, AddrMod}}
    \cup {[origin |-> o, n |-> n] : o \in {"End", "Current"}, n \in {0 - 1, 1}}

CursorWrites == \E n \in Lens, avail \in Avail : steps < MaxOps /\ Write("w", n, avail)

CursorGrows == \E avail \in Avail : steps < MaxOps /\ Grow("w", 1, avail)

CursorReads == \E n \in Lens : steps < MaxOps /\ Read("w", n)

CursorSeeks == \E from \in SeekTargets : steps < MaxOps /\ Seek("w", from)

CursorRebuilt == \E o \in {0, AddrMod - 1} : steps < MaxOps /\ New("w", o)

OtherCursorGrows == steps < MaxOps /\ Grow("r", 1, HostMaxPages)

OtherCursorWrites == \E n \in Lens : steps < MaxOps /\ Write("r", n, HostMaxPages)

NextCursors ==
    \/ CursorWrites \/ CursorGrows \/ CursorReads \/ CursorSeeks \/ CursorRebuilt
    \/ OtherCursorGrows \/ OtherCursorWrites

SpecCursors == InitCursors /\ [][NextCursors]_vars

\* C13: over every step, the cached capacity of each cursor stays or rises, unless
\* the step builds the cursor anew (with_memory starts another cursor's life).
C13_CapacityNeverShrinks ==
    [][\A c \in Cursors :
          \/ io'[c].capacity >= io[c].capacity
          \/ log'[1].op = "new" /\ log'[1].c = c]_vars

C13_Witness ==
    /\ last.op \in {"write", "grow"} /\ last.c = "w"
    /\ last.pre.capacity < last.pre_size
    /\ io["w"].capacity > last.pre_size
    /\ log[2].c = "r"

\* C18: in every state the cached capacity of each cursor is at most the size of
\* the host region in pages.
C18_CacheNeverAhead ==
    \A c \in Cursors : io[c].capacity <= host_size

C18_Witness ==
    /\ io["w"].capacity < host_size /\ io["r"].capacity = host_size
    /\ last.op = "read" /\ last.c = "w" /\ last.res = "OutOfBounds"
    /\ log[2].op \in {"write", "grow"} /\ log[2].c = "r"

\* the bytes the latest read or write passes to the raw host call
RawLen(rec) ==
    IF rec.op = "read" /\ Wrap(Wrap(rec.n) + rec.pre.offset) > Wrap(CapBytes(rec))
    THEN Wrap(CapBytes(rec)) - rec.pre.offset
    ELSE rec.n

\* C19: every raw host write and raw host read a cursor issues lies within the
\* region: offset + len <= host size * PAGE_SIZE, for every offset and length.
C19_RawCallsWithinRegion ==
    (last.op \in {"read", "write"} /\ last.raw) =>
        InRegion(host_size, last.pre.offset, RawLen(last))

\* C19 for the calls whose address arithmetic does not wrap
C19_RawCallsWithinRegion_NoWrap ==
    /\ (last.op = "write" /\ last.raw /\ NoWrap(last)) =>
           InRegion(host_size, last.pre.offset, RawLen(last))
    /\ (last.op = "read" /\ last.raw /\ NoWrapRead(last)) =>
           InRegion(host_size, last.pre.offset, RawLen(last))

(***************************************************************************)
(* SpecSeek: one seek of a 32-bit cursor or of a 64-bit cursor, from any   *)
(* origin, and then one read or write through the 32-bit cursor.           *)
(***************************************************************************)

InitSeek ==
    /\ bw = NoBw /\ br = NoBr
    /\ \E ow \in {0, 1, AddrMod - 1} : InitAt(ow, 0)
    /\ \E o64 \in {0, 1, WideMod \div 2, WideMod - 1} : io64 = with_memory(host_size, o64)

\* values of io::SeekFrom::Start (u64) at the edges of both address types
StartValues ==
    {0, 1, WASM_PAGE_SIZE_IN_BYTES, AddrMod - 1, AddrMod, AddrMod + 1,
     (WideMod \div 2) - 1, WideMod \div 2, WideMod - 1}

\* values of io::SeekFrom::End and Current (i64) at the edges of both address types
SignedValues ==
    {WideMin, 0 - AddrMod - 1, 0 - AddrMod, 0 - WASM_PAGE_SIZE_IN_BYTES, 0 - 1, 0, 1,
     WASM_PAGE_SIZE_IN_BYTES, AddrMod - 1, AddrMod, (0 - WideMin) - 1}

SeekFroms ==
    {[origin |-> "Start", n |-> n] : n \in StartValues}
    \cup {[origin |-> o, n |-> n] : o \in {"End", "Current"}, n \in SignedValues}

Seeks == \E from \in SeekFroms : last.op = "none" /\ Seek("w", from)

Seeks64 == \E from \in SeekFroms : last.op = "none" /\ Seek64(from)

ReadsAfterSeek == \E n \in Lens : last.op = "seek" /\ Read("w", n)

WritesAfterSeek ==
    \E n \in Lens, avail \in Avail : last.op = "seek" /\ Write("w", n, avail)

NextSeek == Seeks \/ Seeks64 \/ ReadsAfterSeek \/ WritesAfterSeek

SpecSeek == InitSeek /\ [][NextSeek]_vars

\* the offset a seek asks for, over the integers
SeekResult(rec) ==
    IF rec.from = "Start" THEN rec.n
    ELSE IF rec.from = "End" THEN CapBytes(rec) + rec.n
    ELSE rec.pre.offset + rec.n

\* C14: seek never fails and changes only the offset: the cached capacity and the
\* region's size and contents stay; an offset it left beyond capacity * PAGE_SIZE
\* makes the next read of n > 0 bytes fail with OutOfBounds and makes the next write
\* of n > 0 bytes ask for growth (and succeed if it is granted).
C14_SeekOnlyMovesOffset ==
    /\ last.op = "seek" =>
          /\ last.res = "Ok"
          /\ io[last.c].capacity = last.pre.capacity
          /\ host_size = last.pre_size /\ host_mem = last.pre_mem
    /\ (last.op = "read" /\ last.n > 0 /\ last.pre.offset > CapBytes(last)) =>
          last.res = "OutOfBounds"
    /\ (last.op = "write" /\ last.n > 0 /\ last.pre.offset > CapBytes(last)) =>
          /\ last.grow_req > 0
          /\ last.res = IF last.grow_ok THEN "Ok" ELSE "OutOfMemory"

\* C14 for seeks that do not panic and reads and writes whose address arithmetic
\* does not wrap
C14_SeekOnlyMovesOffset_NoWrap ==
    /\ (last.op = "seek" /\ last.res = "Ok") =>
          /\ io[last.c].capacity = last.pre.capacity
          /\ host_size = last.pre_size /\ host_mem = last.pre_mem
    /\ (last.op = "read" /\ last.n > 0 /\ last.pre.offset > CapBytes(last)
            /\ NoWrapRead(last)) =>
          last.res = "OutOfBounds"
    /\ (last.op = "write" /\ last.n > 0 /\ last.pre.offset > CapBytes(last)
            /\ NoWrap(last)) =>
          /\ last.grow_req > 0
          /\ last.res = IF last.grow_ok THEN "Ok" ELSE "OutOfMemory"

\* C15: seek returns the new offset, which is n for Start(n), capacity * PAGE_SIZE
\* + n for End(n) and offset + n for Current(n), for every n, in the 32-bit and in
\* the 64-bit cursor.
C15_SeekArithmetic ==
    /\ last.op = "seek" =>
          (last.res = "Ok" /\ last.ret = io["w"].offset /\ last.ret = SeekResult(last))
    /\ last.op = "seek64" =>
          (last.res = "Ok" /\ last.ret = io64.offset /\ last.ret = SeekResult(last))

\* C15 where the offset asked for is one of the address type (and, in the 64-bit
\* cursor, it and the offset before are below 2^63, values of i64)
C15_SeekArithmetic_InRange ==
    /\ (last.op = "seek" /\ SeekResult(last) \in Addr /\ CapBytes(last) < AddrMod) =>
          (last.res = "Ok" /\ last.ret = io["w"].offset /\ last.ret = SeekResult(last))
    /\ (last.op = "seek64" /\ SeekResult(last) \in 0 .. ((WideMod \div 2) - 1)
            /\ last.pre.offset < WideMod \div 2) =>
          (last.res = "Ok" /\ last.ret = io64.offset /\ last.ret = SeekResult(last))

(***************************************************************************)
(* SpecRoundTrip: a writer writes, a fresh reader is then built at the     *)
(* offset the latest write started at, and reads as many bytes back.       *)
(***************************************************************************)

RoundTripWrites ==
    \E n \in Lens, avail \in Avail :
        /\ last.op \in {"none", "write"}
        /\ steps < MaxOps
        /\ Write("w", n, avail)

RoundTripReader ==
    /\ last.op = "write" /\ last.res = "Ok"
    /\ New("r", last.pre.offset)

RoundTripReads ==
    /\ last.op = "new"
    /\ Read("r", log[2].n)

NextRoundTrip == RoundTripWrites \/ RoundTripReader \/ RoundTripReads

SpecRoundTrip == Init /\ [][NextRoundTrip]_vars

\* the latest three operations are a successful write of S at O, a reader built
\* at O, and its read of len(S) bytes
IsRoundTrip ==
    /\ Len(log) >= 3
    /\ log[3].op = "write" /\ log[3].res = "Ok"
    /\ log[2].op = "new" /\ log[2].n = log[3].pre.offset
    /\ log[1].op = "read" /\ log[1].c = log[2].c /\ log[1].n = log[3].n

\* C7: after a writer at offset O has written S, a fresh reader built at O that
\* reads len(S) bytes gets len(S) bytes, equal to S.
C7_RoundTrip ==
    IsRoundTrip =>
        /\ last.res = "Ok"
        /\ last.ret = Len(log[3].buf)
        /\ last.data = log[3].buf

\* C7 on a region that does not fill the whole address space
C7_RoundTrip_NoWrap ==
    (IsRoundTrip /\ host_size < HostMaxPages) =>
        /\ last.res = "Ok"
        /\ last.ret = Len(log[3].buf)
        /\ last.data = log[3].buf

(***************************************************************************)
(* BufferedStableWriter: std::io::BufWriter with a buffer of cap bytes     *)
(* around a StableWriter.  The host here stops granting pages at a fixed   *)
(* size, limit, so that two runs meet the same host.                       *)
(***************************************************************************)

\* largest buffer size of a BufferedStableWriter
MaxBuf == 3

\* the pages a host that stops at limit pages still grants
Room(limit, hs) == IF limit > hs THEN limit - hs ELSE 0

\* io::Write::write of StableWriter (StableIO::write, its error mapped to an io::Error)
StableWriter_io_write(cur, buf, hs, hm, limit, chk) ==
    StableIO_write(cur, buf, hs, hm, Room(limit, hs), chk)

\* what BufWriter::flush_buf leaves once the inner writer has answered o: the
\* bytes it took are dropped from the buffer (StableWriter takes all or fails)
BufWriter_flush_taken(buf, o) ==
    [res |-> o.res, buf |-> SubSeq(buf, o.ret + 1, Len(buf)),
     cur |-> o.cur, hs |-> o.hs, hm |-> o.hm]

\* BufWriter::flush_buf: hands the buffered bytes to the inner writer
BufWriter_flush_buf(buf, cur, hs, hm, limit, chk) ==
    IF buf = <<>>
    THEN [res |-> "Ok", buf |-> buf, cur |-> cur, hs |-> hs, hm |-> hm]
    ELSE BufWriter_flush_taken(buf, StableWriter_io_write(cur, buf, hs, hm, limit, chk))

\* BufWriter::write handing data straight to the inner writer, which answered o
BufWriter_write_direct(buf, o) ==
    [res |-> o.res, ret |-> o.ret, buf |-> buf, cur |-> o.cur, hs |-> o.hs, hm |-> o.hm]

\* BufWriter::write of data that does not fit beside the buffered bytes, after
\* flush_buf has answered f: an error is returned; data as long as the whole
\* buffer goes straight to the inner writer; shorter data is kept in the buffer
BufWriter_write_flushed(cap, data, f, limit, chk) ==
    IF f.res # "Ok"
    THEN [res |-> f.res, ret |-> 0, buf |-> f.buf, cur |-> f.cur, hs |-> f.hs, hm |-> f.hm]
    ELSE IF Len(data) >= cap
    THEN BufWriter_write_direct(f.buf,
             StableWriter_io_write(f.cur, data, f.hs, f.hm, limit, chk))
    ELSE [res |-> "Ok", ret |-> Len(data), buf |-> f.buf \o data,
          cur |-> f.cur, hs |-> f.hs, hm |-> f.hm]

\* BufferedStableWriter::write = BufWriter::write: data is kept in the buffer while
\* it is shorter than the spare room; otherwise the buffer is flushed first if data
\* is longer than the spare room
BufferedStableWriter_write(cap, buf, data, cur, hs, hm, limit, chk) ==
    IF Len(data) < cap - Len(buf)
    THEN [res |-> "Ok", ret |-> Len(data), buf |-> buf \o data,
          cur |-> cur, hs |-> hs, hm |-> hm]
    ELSE BufWriter_write_flushed(cap, data,
             IF Len(data) > cap - Len(buf)
             THEN BufWriter_flush_buf(buf, cur, hs, hm, limit, chk)
             ELSE [res |-> "Ok", buf |-> buf, cur |-> cur, hs |-> hs, hm |-> hm],
             limit, chk)

\* BufferedStableWriter::flush = BufWriter::flush: flush_buf, then the inner flush (a no-op)
BufferedStableWriter_flush(buf, cur, hs, hm, limit, chk) ==
    BufWriter_flush_buf(buf, cur, hs, hm, limit, chk)

\* BufferedStableWriter::offset
BufferedStableWriter_offset == io["w"].offset

\* the bytes S the caller writes
Data == Buf(bw.len)

\* the caller writes the next byte of S
BufferedWrites ==
    /\ Alive /\ bw.open /\ ~bw.failed /\ bw.fed < bw.len
    /\ \E o \in {BufferedStableWriter_write(bw.cap, bw.buf, <<Data[bw.fed + 1]>>, io["w"],
                     host_size, host_mem, bw.limit, overflow_checks)} :
        /\ io' = [io EXCEPT !["w"] = o.cur]
        /\ host_size' = o.hs
        /\ host_mem' = o.hm
        /\ bw' = [bw EXCEPT !.buf = o.buf, !.fed = @ + o.ret, !.failed = (o.res # "Ok")]
        /\ Logged([NoOp EXCEPT !.op = "bwrite", !.pre = io["w"], !.pre_size = host_size,
                       !.pre_mem = host_mem, !.n = 1, !.res = o.res, !.ret = o.ret])
    /\ steps' = steps + 1
    /\ UNCHANGED <<ghost, overflow_checks, br, io64>>

\* the caller flushes after the last byte of S
BufferedFlushes ==
    /\ Alive /\ bw.open /\ ~bw.failed /\ bw.fed = bw.len /\ last.op = "bwrite"
    /\ \E o \in {BufferedStableWriter_flush(bw.buf, io["w"], host_size, host_mem,
                     bw.limit, overflow_checks)} :
        /\ io' = [io EXCEPT !["w"] = o.cur]
        /\ host_size' = o.hs
        /\ host_mem' = o.hm
        /\ bw' = [bw EXCEPT !.buf = o.buf, !.failed = (o.res # "Ok")]
        /\ Logged([NoOp EXCEPT !.op = "bflush", !.pre = io["w"], !.pre_size = host_size,
                       !.pre_mem = host_mem, !.res = o.res])
    /\ steps' = steps + 1
    /\ UNCHANGED <<ghost, overflow_checks, br, io64>>

\* the writer is dropped: BufWriter's drop flushes the buffer and ignores an error
BufferedDrops ==
    /\ Alive /\ bw.open /\ (bw.failed \/ bw.fed = bw.len)
    /\ \E o \in {BufWriter_flush_buf(bw.buf, io["w"], host_size, host_mem,
                     bw.limit, overflow_checks)} :
        /\ io' = [io EXCEPT !["w"] = o.cur]
        /\ host_size' = o.hs
        /\ host_mem' = o.hm
        /\ bw' = [bw EXCEPT !.buf = o.buf, !.open = (o.res = "panic")]
        /\ Logged([NoOp EXCEPT !.op = "bdrop", !.pre = io["w"], !.pre_size = host_size,
                       !.pre_mem = host_mem, !.res = o.res])
    /\ steps' = steps + 1
    /\ UNCHANGED <<ghost, overflow_checks, br, io64>>

\* BufferedStableWriter::with_writer(b, StableWriter::with_memory(memory, ow)), and
\* a byte sequence S longer than b
InitBuffered ==
    /\ br = NoBr /\ io64 = NoIo64
    /\ \E ow \in Addr : InitAt(ow, 0)
    /\ \E b \in 0 .. MaxBuf, n \in 1 .. (WASM_PAGE_SIZE_IN_BYTES + 1),
          lim \in host_size .. HostMaxPages :
          /\ n > b
          /\ bw = [cap |-> b, buf |-> <<>>, len |-> n, fed |-> 0, open |-> TRUE,
                   failed |-> FALSE, limit |-> lim, size0 |-> host_size]

NextBuffered == BufferedWrites \/ BufferedFlushes \/ BufferedDrops

SpecBuffered == InitBuffered /\ [][NextBuffered]_vars

\* a single write of S by an unbuffered StableWriter built at the same offset on
\* the same region
Unbuffered ==
    StableIO_write(with_memory(bw.size0, ghost["w"].origin), Data, bw.size0, ZeroMem,
                   Room(bw.limit, bw.size0), overflow_checks)

\* the buffered writer is gone, without a panic
Closed == ~bw.open /\ bw.len > 0 /\ Alive

\* C9: for every S and buffer size B < len(S), writing S a byte at a time through
\* a buffered writer at offset O leaves, in the end, the region contents that a
\* single unbuffered write of S at O leaves.
C9_BufferedSameContents ==
    Closed => host_mem = Unbuffered.hm

\* C9 amended: ... provided the single unbuffered write of S at O succeeds: the
\* buffered writes and the flush then all succeed too, and once the buffered
\* writer is flushed or dropped the region contents are those of the single write.
C9_BufferedSameContents_WhenWritten ==
    Unbuffered.res = "Ok" =>
        /\ Alive /\ ~bw.failed
        /\ Closed => /\ host_mem = Unbuffered.hm
                     /\ bw.fed = bw.len /\ bw.buf = <<>>

C9_Witness ==
    /\ Closed /\ Unbuffered.res = "Ok"
    /\ bw.cap >= 2 /\ bw.len > bw.cap + 1
    /\ host_size > bw.size0
    /\ host_mem = Unbuffered.hm /\ host_mem # ZeroMem

(***************************************************************************)
(* SpecFlush: the caller hands S to the buffered writer in pieces of one   *)
(* or two bytes and may flush after any piece.                             *)
(***************************************************************************)

\* the caller writes the next k bytes of S
BufferedWritesPiece ==
    \E k \in 1 .. 2 :
        /\ Alive /\ bw.open /\ ~bw.failed /\ bw.fed + k <= bw.len
        /\ \E o \in {BufferedStableWriter_write(bw.cap, bw.buf,
                         SubSeq(Data, bw.fed + 1, bw.fed + k), io["w"],
                         host_size, host_mem, bw.limit, overflow_checks)} :
            /\ io' = [io EXCEPT !["w"] = o.cur]
            /\ host_size' = o.hs
            /\ host_mem' = o.hm
            /\ bw' = [bw EXCEPT !.buf = o.buf, !.fed = @ + o.ret,
                                !.failed = (o.res # "Ok")]
            /\ Logged([NoOp EXCEPT !.op = "bwrite", !.pre = io["w"],
                           !.pre_size = host_size, !.pre_mem = host_mem,
                           !.n = k, !.res = o.res, !.ret = o.ret])
        /\ steps' = steps + 1
        /\ UNCHANGED <<ghost, overflow_checks, br, io64>>

\* the caller flushes after any write
BufferedFlushesEarly ==
    /\ Alive /\ bw.open /\ ~bw.failed /\ last.op = "bwrite"
    /\ \E o \in {BufferedStableWriter_flush(bw.buf, io["w"], host_size, host_mem,
                     bw.limit, overflow_checks)} :
        /\ io' = [io EXCEPT !["w"] = o.cur]
        /\ host_size' = o.hs
        /\ host_mem' = o.hm
        /\ bw' = [bw EXCEPT !.buf = o.buf, !.failed = (o.res # "Ok")]
        /\ Logged([NoOp EXCEPT !.op = "bflush", !.pre = io["w"], !.pre_size = host_size,
                       !.pre_mem = host_mem, !.res = o.res])
    /\ steps' = steps + 1
    /\ UNCHANGED <<ghost, overflow_checks, br, io64>>

NextFlush == BufferedWritesPiece \/ BufferedFlushesEarly

SpecFlush == InitBuffered /\ [][NextFlush]_vars

\* the first k bytes of S are in the region from the writer's first offset on
Written(k) ==
    \A i \in 1 .. k :
        /\ ghost["w"].origin + i - 1 \in DOMAIN host_mem
        /\ host_mem[ghost["w"].origin + i - 1] = Data[i]

\* C16: after a successful flush every byte written so far is in the region at its
\* position and offset() is the first offset plus the bytes written; before it,
\* offset() is the inner writer's offset, which counts the bytes written less
\* those still in the buffer.
C16_FlushPushesAll ==
    /\ (last.op = "bflush" /\ last.res = "Ok") =>
          /\ Written(bw.fed)
          /\ BufferedStableWriter_offset = ghost["w"].origin + bw.fed
    /\ (bw.open /\ Alive /\ ~bw.failed) =>
          /\ BufferedStableWriter_offset = io["w"].offset
          /\ BufferedStableWriter_offset = ghost["w"].origin + bw.fed - Len(bw.buf)

\* C16 for writers that stay a page below the end of the address space
C16_FlushPushesAll_NoWrap ==
    ghost["w"].origin + bw.len + WASM_PAGE_SIZE_IN_BYTES < AddrMod =>
        /\ (last.op = "bflush" /\ last.res = "Ok") =>
              /\ Written(bw.fed)
              /\ BufferedStableWriter_offset = ghost["w"].origin + bw.fed
        /\ (bw.open /\ Alive /\ ~bw.failed) =>
              /\ BufferedStableWriter_offset = io["w"].offset
              /\ BufferedStableWriter_offset = ghost["w"].origin + bw.fed - Len(bw.buf)

(***************************************************************************)
(* BufferedStableReader: std::io::BufReader with a buffer of cap bytes     *)
(* around a StableReader.  buf: the bytes fetched and not yet delivered.   *)
(***************************************************************************)

\* BufReader::read with an empty buffer and a caller's buffer at least as long as
\* its own: the inner reader, which answered o, reads straight into the caller's
BufReader_read_direct(o) ==
    [res |-> o.res, ret |-> o.ret, data |-> o.data, buf |-> <<>>, cur |-> o.cur]

\* what BufReader::fill_buf holds once the inner reader has answered o
BufReader_filled(o) == [res |-> o.res, buf |-> o.data, cur |-> o.cur]

\* BufReader::fill_buf: an empty buffer is refilled by one read of cap bytes
BufReader_fill_buf(cap, buf, cur, hs, hm, chk) ==
    IF buf # <<>>
    THEN [res |-> "Ok", buf |-> buf, cur |-> cur]
    ELSE BufReader_filled(StableIO_io_read(cur, cap, hs, hm, chk))

\* BufReader::read after fill_buf answered f: as many bytes as the caller's buffer
\* of n bytes takes are copied out and consumed
BufReader_read_filled(n, f) ==
    IF f.res # "Ok"
    THEN [res |-> f.res, ret |-> 0, data |-> <<>>, buf |-> f.buf, cur |-> f.cur]
    ELSE IF Len(f.buf) <= n
    THEN [res |-> "Ok", ret |-> Len(f.buf), data |-> f.buf, buf |-> <<>>, cur |-> f.cur]
    ELSE [res |-> "Ok", ret |-> n, data |-> SubSeq(f.buf, 1, n),
          buf |-> SubSeq(f.buf, n + 1, Len(f.buf)), cur |-> f.cur]

\* BufferedStableReader::read = BufReader::read into a caller's buffer of n bytes
BufferedStableReader_read(cap, buf, n, cur, hs, hm, chk) ==
    IF buf = <<>> /\ n >= cap
    THEN BufReader_read_direct(StableIO_io_read(cur, n, hs, hm, chk))
    ELSE BufReader_read_filled(n, BufReader_fill_buf(cap, buf, cur, hs, hm, chk))

\* BufferedStableReader::offset
BufferedStableReader_offset == io["r"].offset

\* the caller reads into a buffer of n bytes
BufferedReads ==
    \E n \in Lens :
        /\ Alive /\ br.open /\ steps < MaxOps
        /\ \E o \in {BufferedStableReader_read(br.cap, br.buf, n, io["r"],
                         host_size, host_mem, overflow_checks)} :
            /\ io' = [io EXCEPT !["r"] = o.cur]
            /\ br' = [br EXCEPT !.buf = o.buf, !.delivered = @ + o.ret]
            /\ Logged([NoOp EXCEPT !.op = "bread", !.c = "r", !.pre = io["r"],
                           !.pre_size = host_size, !.pre_mem = host_mem,
                           !.n = n, !.buf = br.buf, !.res = o.res, !.ret = o.ret,
                           !.data = o.data])
        /\ steps' = steps + 1
        /\ UNCHANGED <<host_size, host_mem, ghost, overflow_checks, bw, io64>>

\* BufferedStableReader::with_reader(b, StableReader::with_memory(memory, or))
InitBufferedRead ==
    /\ bw = NoBw /\ io64 = NoIo64
    /\ \E or \in Addr : InitAt(0, or)
    /\ \E b \in 0 .. MaxBuf : br = [cap |-> b, buf |-> <<>>, open |-> TRUE, delivered |-> 0]

NextBufferedRead == BufferedReads \/ OtherWrites \/ OtherGrows1

SpecBufferedRead == InitBufferedRead /\ [][NextBufferedRead]_vars

\* the latest read refilled the empty buffer
Refilled == last.op = "bread" /\ last.buf = <<>> /\ last.n < br.cap /\ last.res = "Ok"

\* C17: offset() of the buffered reader is the inner cursor's offset, the position
\* past the last byte fetched: the first offset plus the bytes delivered plus those
\* still buffered; a read that refills the empty buffer advances it by the length
\* of the refill, whatever the caller takes.
C17_OffsetCountsFetched ==
    (br.open /\ Alive) =>
        /\ BufferedStableReader_offset = io["r"].offset
        /\ BufferedStableReader_offset = ghost["r"].origin + br.delivered + Len(br.buf)
        /\ Refilled =>
              BufferedStableReader_offset = last.pre.offset + last.ret + Len(br.buf)

\* C17 for readers whose offset stays below the end of the address space
C17_OffsetCountsFetched_NoWrap ==
    (br.open /\ Alive
        /\ ghost["r"].origin + br.delivered + Len(br.buf) < AddrMod) =>
        /\ BufferedStableReader_offset = io["r"].offset
        /\ BufferedStableReader_offset = ghost["r"].origin + br.delivered + Len(br.buf)
        /\ Refilled =>
              BufferedStableReader_offset = last.pre.offset + last.ret + Len(br.buf)

\* a refill fetched more than the caller took
C17_Reached ==
    /\ Refilled /\ last.ret < Len(br.buf) + last.ret /\ last.ret > 0
    /\ BufferedStableReader_offset > ghost["r"].origin + br.delivered

====
